---- MODULE Spec2Model ----
(***************************************************************************)
(* Model of src/distance/path_constrain.py: the computation of the set of  *)
(* functions to instrument for directed fuzzing.                           *)
(*                                                                         *)
(* The call graph is the pair of dictionaries parse_call_graph_file builds *)
(* from the well-formed records "caller,callee:line" of call_graph.txt.    *)
(* Each function of the program is modelled twice where a claim is about   *)
(* its run: as the steps of its loop or recursion (actions), and as the    *)
(* value it returns (an operator, used by its callers).                    *)
(***************************************************************************)
EXTENDS Integers, Sequences, FiniteSets, TLC

VARIABLES
    pc,                     \* the function that runs, and where it is
    call_graph,             \* caller -> sequence of callees
    call_sites,             \* caller -> sequence of <<callee, line>>
    start, target,          \* get_call_path: arguments
    path, visited,          \* get_call_path: closure variables
    current_path,           \* dfs: the list shared by all recursive calls
    stack,                  \* dfs: the suspended calls, [node, i] = next callee
    entered,                \* history: times each node was appended by dfs
    target_func,            \* get_preceding_dependent_funcs: argument
    dependent_funcs,        \* get_preceding_dependent_funcs: result
    initial_funcs,          \* get_recursive_dependencies: seeds, in iteration order
    all_deps, queue,        \* get_recursive_dependencies: locals
    enqueued, dequeues,     \* history: appends per function, popleft count
    entry_func,             \* compute_instrumentation_set: arguments
    target_funcs,
    ti,                     \* index of the next target of the for loop
    instrumentation_funcs,  \* compute_instrumentation_set: accumulator
    entry_file,             \* read_entry_func: the characters of the file
    entry_result            \* read_entry_func: returned string

vars == <<pc, call_graph, call_sites, start, target, path, visited,
          current_path, stack, entered, target_func, dependent_funcs,
          initial_funcs, all_deps, queue, enqueued, dequeues, entry_func,
          target_funcs, ti, instrumentation_funcs, entry_file, entry_result>>

pathVars == <<start, target, path, visited, current_path, stack, entered>>
precVars == <<target_func, dependent_funcs>>
depsVars == <<initial_funcs, all_deps, queue, enqueued, dequeues>>
instrVars == <<entry_func, target_funcs, ti, instrumentation_funcs>>
entryVars == <<entry_file, entry_result>>

----------------------------------------------------------------------------
(* Bounds and input domains *)

MaxEdges == 3        \* records of call_graph.txt
MaxCalls == 2        \* records of call_graph.txt, when a list of targets is processed
MaxTargets == 2      \* lines of target_funcs.txt
MaxFileLen == 4      \* characters of entry_func.txt

Funcs == {"A", "B", "C"}
LineNos == {1, 2}
Chars == {" ", "\n", "f", "g"}
Whitespace == {" ", "\n"}

Range(s) == {s[i] : i \in DOMAIN s}
SeqsUpTo(S, n) == UNION {[1..k -> S] : k \in 0..n}
NoDuplicates(s) == \A i, j \in DOMAIN s : i # j => s[i] # s[j]

\* The well-formed records of a call graph file, in file order.
EdgeRecords(lines) == [caller : Funcs, callee : Funcs, lineno : lines]
GraphFiles(lines, n) == SeqsUpTo(EdgeRecords(lines), n)

----------------------------------------------------------------------------
(* parse_call_graph_file *)

RecordsOf(recs, c) ==
    LET ByCaller(r) == r.caller = c IN SelectSeq(recs, ByCaller)

ParseCallGraph(recs) ==
    [c \in {recs[i].caller : i \in DOMAIN recs} |->
        [i \in 1..Len(RecordsOf(recs, c)) |-> RecordsOf(recs, c)[i].callee]]

ParseCallSites(recs) ==
    [c \in {recs[i].caller : i \in DOMAIN recs} |->
        [i \in 1..Len(RecordsOf(recs, c)) |->
            <<RecordsOf(recs, c)[i].callee, RecordsOf(recs, c)[i].lineno>>]]

\* dict.get(key, [])
Get(d, k) == IF k \in DOMAIN d THEN d[k] ELSE <<>>

Parsed(lines, n) ==
    \E recs \in GraphFiles(lines, n) :
        /\ call_graph = ParseCallGraph(recs)
        /\ call_sites = ParseCallSites(recs)

----------------------------------------------------------------------------
(* Values of the variables a function does not use *)

IdlePath ==
    /\ start = "" /\ target = "" /\ path = <<>> /\ visited = {}
    /\ current_path = <<>> /\ stack = <<>> /\ entered = [f \in Funcs |-> 0]
IdlePrec == target_func = "" /\ dependent_funcs = {}
IdleDeps ==
    /\ initial_funcs = <<>> /\ all_deps = {} /\ queue = <<>>
    /\ enqueued = [f \in Funcs |-> 0] /\ dequeues = 0
IdleInstr ==
    /\ entry_func = "" /\ target_funcs = <<>> /\ ti = 1
    /\ instrumentation_funcs = {}
IdleEntry == entry_file = <<>> /\ entry_result = <<>>

----------------------------------------------------------------------------
(* get_call_path, step by step *)

InitPath ==
    /\ pc = "get_call_path"
    /\ Parsed({1}, MaxEdges)
    /\ start \in Funcs /\ target \in Funcs
    /\ path = <<>> /\ visited = {}
    /\ current_path = <<>> /\ stack = <<>> /\ entered = [f \in Funcs |-> 0]
    /\ IdlePrec /\ IdleDeps /\ IdleInstr /\ IdleEntry

\* current_path.pop()
PopPathKeep(cp) == cp
PopPath(cp) == SubSeq(cp, 1, Len(cp) - 1)

\* the callees the for loop of dfs iterates
CalleesFirstOnly(g, node) ==
    IF Get(g, node) = <<>> THEN <<>> ELSE <<Head(Get(g, node))>>
Callees(g, node) == Get(g, node)

\* `if node == target`, the guard of path.extend(current_path); return True
IsTargetAlways(node, t) == TRUE
IsTarget(node, t) == node = t

\* The call dfs(node, current_path) made while the calls of `callers` are
\* suspended: up to the point where it returns or enters its for loop.
\* A True result is returned by every suspended caller in turn.
DfsCall(node, callers) ==
    IF node \in visited
    THEN /\ stack' = callers
         /\ pc' = "dfs"
         /\ UNCHANGED <<path, visited, current_path, entered>>
    ELSE /\ visited' = visited \cup {node}
         /\ current_path' = Append(current_path, node)
         /\ entered' = [entered EXCEPT ![node] = @ + 1]
         /\ IF IsTarget(node, target)
            THEN /\ path' = path \o current_path'
                 /\ stack' = <<>>
                 /\ pc' = "get_call_path:return"
            ELSE /\ path' = path
                 /\ stack' = Append(callers, [node |-> node, i |-> 1])
                 /\ pc' = "dfs"

Top == stack[Len(stack)]

\* dfs(start, [])
DfsStart ==
    /\ pc = "get_call_path"
    /\ DfsCall(start, <<>>)
    /\ UNCHANGED <<call_graph, call_sites, start, target>>
    /\ UNCHANGED <<precVars, depsVars, instrVars, entryVars>>

\* one iteration of `for callee in call_graph.get(node, [])`
DfsCallee ==
    /\ pc = "dfs" /\ stack # <<>>
    /\ Top.i <= Len(Callees(call_graph, Top.node))
    /\ DfsCall(Callees(call_graph, Top.node)[Top.i],
               [stack EXCEPT ![Len(stack)].i = @ + 1])
    /\ UNCHANGED <<call_graph, call_sites, start, target>>
    /\ UNCHANGED <<precVars, depsVars, instrVars, entryVars>>

\* the loop is exhausted: pop and return False, with the mark removed
DfsReturnUnmark ==
    /\ pc = "dfs" /\ stack # <<>>
    /\ Top.i > Len(Callees(call_graph, Top.node))
    /\ current_path' = PopPath(current_path)
    /\ visited' = visited \ {Top.node}
    /\ stack' = SubSeq(stack, 1, Len(stack) - 1)
    /\ UNCHANGED <<pc, path, entered>>
    /\ UNCHANGED <<call_graph, call_sites, start, target>>
    /\ UNCHANGED <<precVars, depsVars, instrVars, entryVars>>

\* the loop is exhausted: current_path.pop(); return False
DfsReturn ==
    /\ pc = "dfs" /\ stack # <<>>
    /\ Top.i > Len(Callees(call_graph, Top.node))
    /\ current_path' = PopPath(current_path)
    /\ stack' = SubSeq(stack, 1, Len(stack) - 1)
    /\ UNCHANGED <<pc, path, visited, entered>>
    /\ UNCHANGED <<call_graph, call_sites, start, target>>
    /\ UNCHANGED <<precVars, depsVars, instrVars, entryVars>>

\* dfs(start, []) returned False: return path
PathReturn ==
    /\ pc = "dfs" /\ stack = <<>>
    /\ pc' = "get_call_path:return"
    /\ UNCHANGED <<call_graph, call_sites, pathVars>>
    /\ UNCHANGED <<precVars, depsVars, instrVars, entryVars>>

NextPath == DfsStart \/ DfsCallee \/ DfsReturn \/ PathReturn

SpecPath == InitPath /\ [][NextPath]_vars /\ WF_vars(NextPath)

----------------------------------------------------------------------------
(* get_call_path, as the value it returns *)

RECURSIVE Dfs(_, _, _, _), DfsLoop(_, _, _, _, _)

\* dfs(node, current_path) from the state st of the closure variables;
\* the result is the state after the call, with the returned boolean.
Dfs(g, t, node, st) ==
    IF node \in st.visited
    THEN [st EXCEPT !.found = FALSE]
    ELSE LET s1 == [visited |-> st.visited \cup {node},
                    current_path |-> Append(st.current_path, node),
                    found |-> FALSE]
         IN IF IsTarget(node, t)
            THEN [s1 EXCEPT !.found = TRUE]
            ELSE DfsLoop(g, t, Callees(g, node), 1, s1)

DfsLoop(g, t, callees, i, st) ==
    IF i > Len(callees)
    THEN [st EXCEPT !.current_path = PopPath(@), !.found = FALSE]
    ELSE LET r == Dfs(g, t, callees[i], st)
         IN IF r.found THEN r ELSE DfsLoop(g, t, callees, i + 1, r)

GetCallPath(g, s, t) ==
    LET r == Dfs(g, t, s, [visited |-> {}, current_path |-> <<>>,
                           found |-> FALSE])
    IN IF r.found THEN r.current_path ELSE <<>>

\* The stepwise run and the returned value are the same function.
PathAgrees ==
    pc = "get_call_path:return" => path = GetCallPath(call_graph, start, target)

----------------------------------------------------------------------------
(* get_preceding_dependent_funcs *)

\* `[line for callee, line in callee_infos if callee == target_func]`
TargetLines(callee_infos, t) ==
    {callee_infos[i][2] : i \in {j \in DOMAIN callee_infos : callee_infos[j][1] = t}}

\* `any(line < tgt_line ...) and callee != target_func`
PrecedesOrSameLine(info, target_lines, t) ==
    (\E tgt_line \in target_lines : info[2] <= tgt_line) /\ info[1] # t
Precedes(info, target_lines, t) ==
    (\E tgt_line \in target_lines : info[2] < tgt_line) /\ info[1] # t

\* the callees one caller adds to dependent_funcs
CallerDependents(callee_infos, t) ==
    LET target_lines == TargetLines(callee_infos, t)
    IN IF target_lines = {}
       THEN {}
       ELSE {callee_infos[i][1] :
                i \in {j \in DOMAIN callee_infos :
                          Precedes(callee_infos[j], target_lines, t)}}

GetPrecedingDependentFuncs(sites, t) ==
    UNION {CallerDependents(sites[caller], t) : caller \in DOMAIN sites}

InitPreceding ==
    /\ pc = "get_preceding_dependent_funcs"
    /\ Parsed(LineNos, MaxEdges)
    /\ target_func \in Funcs
    /\ dependent_funcs = {}
    /\ IdlePath /\ IdleDeps /\ IdleInstr /\ IdleEntry

PrecedingReturn ==
    /\ pc = "get_preceding_dependent_funcs"
    /\ dependent_funcs' = GetPrecedingDependentFuncs(call_sites, target_func)
    /\ pc' = "get_preceding_dependent_funcs:return"
    /\ UNCHANGED <<call_graph, call_sites, target_func>>
    /\ UNCHANGED <<pathVars, depsVars, instrVars, entryVars>>

NextPreceding == PrecedingReturn

SpecPreceding == InitPreceding /\ [][NextPreceding]_vars /\ WF_vars(NextPreceding)

----------------------------------------------------------------------------
(* get_recursive_dependencies, step by step *)

\* `for callee in call_graph.get(func, [])`, from callee i on, with the
\* membership test made on the set as it was when the loop began
RECURSIVE ScanCalleesStale(_, _, _, _, _)
ScanCalleesStale(callees, i, deps, q, n) ==
    IF i > Len(callees)
    THEN [all_deps |-> deps, queue |-> q, enqueued |-> n]
    ELSE IF callees[i] \notin deps
         THEN LET r == ScanCalleesStale(callees, i + 1, deps,
                                        Append(q, callees[i]),
                                        [n EXCEPT ![callees[i]] = @ + 1])
              IN [r EXCEPT !.all_deps = @ \cup {callees[i]}]
         ELSE ScanCalleesStale(callees, i + 1, deps, q, n)

\* the for loop broken off after its first iteration
RECURSIVE ScanCalleesOnce(_, _, _, _, _)
ScanCalleesOnce(callees, i, deps, q, n) ==
    IF i > Len(callees) \/ i > 1
    THEN [all_deps |-> deps, queue |-> q, enqueued |-> n]
    ELSE IF callees[i] \notin deps
         THEN ScanCalleesOnce(callees, i + 1, deps \cup {callees[i]},
                              Append(q, callees[i]),
                              [n EXCEPT ![callees[i]] = @ + 1])
         ELSE ScanCalleesOnce(callees, i + 1, deps, q, n)

\* `for callee in call_graph.get(func, [])`, from callee i on:
\* `if callee not in all_deps: all_deps.add(callee); queue.append(callee)`
RECURSIVE ScanCallees(_, _, _, _, _)
ScanCallees(callees, i, deps, q, n) ==
    IF i > Len(callees)
    THEN [all_deps |-> deps, queue |-> q, enqueued |-> n]
    ELSE IF callees[i] \notin deps
         THEN ScanCallees(callees, i + 1, deps \cup {callees[i]},
                          Append(q, callees[i]),
                          [n EXCEPT ![callees[i]] = @ + 1])
         ELSE ScanCallees(callees, i + 1, deps, q, n)

\* The orders in which a set can be iterated.
Orderings(S) == {s \in [1..Cardinality(S) -> S] : Range(s) = S}

InitDeps ==
    /\ pc = "get_recursive_dependencies"
    /\ Parsed({1}, MaxEdges)
    /\ \E S \in SUBSET Funcs : initial_funcs \in Orderings(S)
    /\ all_deps = Range(initial_funcs)
    /\ queue = initial_funcs
    /\ enqueued = [f \in Funcs |-> IF f \in Range(initial_funcs) THEN 1 ELSE 0]
    /\ dequeues = 0
    /\ IdlePath /\ IdlePrec /\ IdleInstr /\ IdleEntry

\* one iteration of `while queue`
Dequeue ==
    /\ pc = "get_recursive_dependencies"
    /\ queue # <<>>
    /\ LET func == Head(queue)
           r == ScanCallees(Get(call_graph, func), 1, all_deps, Tail(queue),
                            enqueued)
       IN /\ all_deps' = r.all_deps
          /\ queue' = r.queue
          /\ enqueued' = r.enqueued
    /\ dequeues' = dequeues + 1
    /\ UNCHANGED <<pc, call_graph, call_sites, initial_funcs>>
    /\ UNCHANGED <<pathVars, precVars, instrVars, entryVars>>

\* the queue is empty: return all_deps
DepsReturn ==
    /\ pc = "get_recursive_dependencies"
    /\ queue = <<>>
    /\ pc' = "get_recursive_dependencies:return"
    /\ UNCHANGED <<call_graph, call_sites, depsVars>>
    /\ UNCHANGED <<pathVars, precVars, instrVars, entryVars>>

NextDeps == Dequeue \/ DepsReturn

SpecDeps == InitDeps /\ [][NextDeps]_vars /\ WF_vars(NextDeps)

----------------------------------------------------------------------------
(* get_recursive_dependencies, as the value it returns *)

RECURSIVE Closure(_, _, _)
Closure(g, deps, q) ==
    IF q = <<>>
    THEN deps
    ELSE LET r == ScanCallees(Get(g, Head(q)), 1, deps, Tail(q),
                              [f \in Funcs |-> 0])
         IN Closure(g, r.all_deps, r.queue)

\* deque(initial_funcs) takes the set in its iteration order
SomeOrdering(S) == CHOOSE s \in Orderings(S) : TRUE

GetRecursiveDependencies(g, initial) ==
    Closure(g, initial, SomeOrdering(initial))

\* The stepwise run and the returned value agree for every seed order.
DepsAgree ==
    pc = "get_recursive_dependencies:return" =>
        all_deps = GetRecursiveDependencies(call_graph, Range(initial_funcs))

----------------------------------------------------------------------------
(* expand_by_internal_calls *)

\* `for bb in bb_calls.get(func, []): for callee in bb`: the callees of the
\* basic blocks of a function, in the order the nested loops visit them
RECURSIVE BlockCallees(_)
BlockCallees(blocks) ==
    IF blocks = <<>> THEN <<>> ELSE Head(blocks) \o BlockCallees(Tail(blocks))

RECURSIVE Expansion(_, _, _)
Expansion(bb, expanded, q) ==
    IF q = <<>>
    THEN expanded
    ELSE LET r == ScanCallees(BlockCallees(Get(bb, Head(q))), 1, expanded,
                              Tail(q), [f \in Funcs |-> 0])
         IN Expansion(bb, r.all_deps, r.queue)

ExpandByInternalCalls(func_list, bb) ==
    Expansion(bb, func_list, SomeOrdering(func_list))

\* main: `bb_calls = {}`
bb_calls == <<>>

----------------------------------------------------------------------------
(* compute_instrumentation_set *)

\* the body of the for loop with the forward path left out of `combined`
CombinedWithoutPath(g, sites, bb, entry, t) ==
    LET direct_deps == GetPrecedingDependentFuncs(sites, t)
        recursive_deps == GetRecursiveDependencies(g, direct_deps)
        bb_expanded == ExpandByInternalCalls(recursive_deps, bb)
    IN recursive_deps \cup bb_expanded

\* the body of the for loop with the target added to the seeds of the closure
CombinedSeedingTarget(g, sites, bb, entry, t) ==
    LET forward_path == GetCallPath(g, entry, t)
        direct_deps == GetPrecedingDependentFuncs(sites, t)
        recursive_deps == GetRecursiveDependencies(g, direct_deps \cup {t})
        bb_expanded == ExpandByInternalCalls(recursive_deps, bb)
    IN Range(forward_path) \cup recursive_deps \cup bb_expanded

\* the body of the for loop: `combined` for one target
Combined(g, sites, bb, entry, t) ==
    LET forward_path == GetCallPath(g, entry, t)
        direct_deps == GetPrecedingDependentFuncs(sites, t)
        recursive_deps == GetRecursiveDependencies(g, direct_deps)
        bb_expanded == ExpandByInternalCalls(recursive_deps, bb)
    IN Range(forward_path) \cup recursive_deps \cup bb_expanded

InitInstr ==
    /\ pc = "compute_instrumentation_set"
    /\ Parsed(LineNos, MaxCalls)
    /\ entry_func \in Funcs
    /\ target_funcs \in SeqsUpTo(Funcs, MaxTargets)
    /\ ti = 1
    /\ instrumentation_funcs = {}
    /\ IdlePath /\ IdlePrec /\ IdleDeps /\ IdleEntry

\* one iteration of `for target_func in target_funcs`
ProcessTarget ==
    /\ pc = "compute_instrumentation_set"
    /\ ti <= Len(target_funcs)
    /\ instrumentation_funcs' =
          instrumentation_funcs \cup
             Combined(call_graph, call_sites, bb_calls, entry_func,
                      target_funcs[ti])
    /\ ti' = ti + 1
    /\ UNCHANGED <<pc, call_graph, call_sites, entry_func, target_funcs>>
    /\ UNCHANGED <<pathVars, precVars, depsVars, entryVars>>

\* the targets are exhausted: return instrumentation_funcs
InstrReturn ==
    /\ pc = "compute_instrumentation_set"
    /\ ti > Len(target_funcs)
    /\ pc' = "compute_instrumentation_set:return"
    /\ UNCHANGED <<call_graph, call_sites, instrVars>>
    /\ UNCHANGED <<pathVars, precVars, depsVars, entryVars>>

NextInstr == ProcessTarget \/ InstrReturn

SpecInstr == InitInstr /\ [][NextInstr]_vars /\ WF_vars(NextInstr)

----------------------------------------------------------------------------
(* read_entry_func *)

\* f.read(): the whole file
ReadAll(f) == f

\* f.readline(): the characters up to and including the first newline
RECURSIVE ReadLine(_)
ReadLine(f) ==
    IF f = <<>> THEN <<>>
    ELSE IF Head(f) = "\n" THEN <<"\n">>
    ELSE <<Head(f)>> \o ReadLine(Tail(f))

RECURSIVE LStrip(_)
LStrip(s) ==
    IF s # <<>> /\ Head(s) \in Whitespace THEN LStrip(Tail(s)) ELSE s

RECURSIVE RStrip(_)
RStrip(s) ==
    IF s # <<>> /\ s[Len(s)] \in Whitespace
    THEN RStrip(SubSeq(s, 1, Len(s) - 1))
    ELSE s

\* str.strip()
Strip(s) == RStrip(LStrip(s))

InitEntry ==
    /\ pc = "read_entry_func"
    /\ entry_file \in SeqsUpTo(Chars, MaxFileLen)
    /\ entry_result = <<>>
    /\ call_graph = <<>> /\ call_sites = <<>>
    /\ IdlePath /\ IdlePrec /\ IdleDeps /\ IdleInstr

\* `return f.readline().strip()`
ReadEntryFunc ==
    /\ pc = "read_entry_func"
    /\ entry_result' = Strip(ReadLine(entry_file))
    /\ pc' = "read_entry_func:return"
    /\ UNCHANGED <<call_graph, call_sites, entry_file>>
    /\ UNCHANGED <<pathVars, precVars, depsVars, instrVars>>

NextEntry == ReadEntryFunc

SpecEntry == InitEntry /\ [][NextEntry]_vars /\ WF_vars(NextEntry)

----------------------------------------------------------------------------
(* The program's functions together *)

Init == InitPath \/ InitPreceding \/ InitDeps \/ InitInstr \/ InitEntry

Next == NextPath \/ NextPreceding \/ NextDeps \/ NextInstr \/ NextEntry

Spec == Init /\ [][Next]_vars /\ WF_vars(Next)

----------------------------------------------------------------------------
(* Graph notions the properties are stated with *)

Edge(g, a, b) == b \in Range(Get(g, a))

RECURSIVE ReachFrom(_, _)
ReachFrom(g, S) ==
    LET N == S \cup {b \in Funcs : \E a \in S : Edge(g, a, b)}
    IN IF N = S THEN S ELSE ReachFrom(g, N)

\* t is reachable from s by zero or more call edges
Reachable(g, s, t) == t \in ReachFrom(g, {s})

PathDone == pc = "get_call_path:return"
PrecedingDone == pc = "get_preceding_dependent_funcs:return"
DepsDone == pc = "get_recursive_dependencies:return"
InstrDone == pc = "compute_instrumentation_set:return"
EntryDone == pc = "read_entry_func:return"

\* the functions named by the call graph
GraphFuncs(g) == DOMAIN g \cup UNION {Range(g[c]) : c \in DOMAIN g}

----------------------------------------------------------------------------
(* Properties of get_call_path *)

\* C1: a non-empty returned path starts at start, ends at target, and each
\* consecutive pair of it is an edge of the call graph.
C1_PathIsValid ==
    (PathDone /\ path # <<>>) =>
        /\ path[1] = start
        /\ path[Len(path)] = target
        /\ \A i \in 1..(Len(path) - 1) : Edge(call_graph, path[i], path[i + 1])

\* a path of at least two nodes found after a failed branch was popped
C1_Witness ==
    PathDone /\ Len(path) >= 2 /\ Cardinality(visited) > Len(path)

\* C2 (as claimed): start absent from the graph, or target unreachable from
\* start, gives the empty sequence, whatever the target.
C2_AbsentOrUnreachableIsEmpty ==
    (PathDone /\ (start \notin DOMAIN call_graph
                    \/ ~Reachable(call_graph, start, target))) =>
        path = <<>>

\* C2 (amended): the empty sequence is returned when target is not reachable
\* from start by zero or more edges, which covers an absent start that is not
\* the target; an absent start that is the target gives <<start>>.
C2_UnreachableIsEmpty ==
    PathDone =>
        /\ ~Reachable(call_graph, start, target) => path = <<>>
        /\ (start \notin DOMAIN call_graph /\ start # target) => path = <<>>
        /\ (start \notin DOMAIN call_graph /\ start = target) => path = <<start>>

\* start is no caller of a non-empty graph that holds the target
C2_Witness ==
    /\ PathDone /\ start \notin DOMAIN call_graph /\ start # target
    /\ target \in DOMAIN call_graph /\ path = <<>>

\* C7: the search terminates, no node is appended to the current path more
\* than once during it, and the returned path repeats no function.
C7_TerminatesVisitingOnce ==
    /\ <>PathDone
    /\ [](\A f \in Funcs : entered[f] <= 1)
    /\ [](PathDone => NoDuplicates(path))

\* a search that ran into a call edge back to start and returned
C7_Witness ==
    /\ PathDone /\ Cardinality(visited) >= 2
    /\ \E n \in visited \ {start} : Edge(call_graph, n, start)

\* C10: when target is reachable from start by zero or more edges, the
\* returned path is not empty.
C10_ReachableIsFound ==
    (PathDone /\ Reachable(call_graph, start, target)) => path # <<>>

\* a node visited on a failed branch has an edge to a node of the found path
C10_Witness ==
    /\ PathDone /\ path # <<>>
    /\ \E n \in visited \ Range(path) :
          \E m \in Range(path) : Edge(call_graph, n, m)

----------------------------------------------------------------------------
(* Properties of get_preceding_dependent_funcs *)

\* C3: the result is exactly the set of callees c other than the target for
\* which some caller has a call site (c, l) and a call site (target, l') with
\* l < l'.
C3_PrecedingExactly ==
    PrecedingDone =>
        dependent_funcs =
            {c \in Funcs \ {target_func} :
                \E caller \in DOMAIN call_sites :
                    \E i, j \in DOMAIN call_sites[caller] :
                        /\ call_sites[caller][i][1] = c
                        /\ call_sites[caller][j][1] = target_func
                        /\ call_sites[caller][i][2] < call_sites[caller][j][2]}

\* one caller of the target calls a function before it, which is in the
\* result, and another function on the line of its last call, which is not
C3_Witness ==
    /\ PrecedingDone /\ dependent_funcs # {}
    /\ \E caller \in DOMAIN call_sites :
          \E i, j, k \in DOMAIN call_sites[caller] :
              /\ call_sites[caller][j][1] = target_func
              /\ call_sites[caller][i][1] \in dependent_funcs
              /\ call_sites[caller][i][2] < call_sites[caller][j][2]
              /\ call_sites[caller][k][1] \notin dependent_funcs \cup {target_func}
              /\ call_sites[caller][k][2] = call_sites[caller][j][2]

----------------------------------------------------------------------------
(* Properties of get_recursive_dependencies *)

\* C4: the returned set contains every seed and is closed under the edges of
\* the call graph.
C4_ClosureIsClosed ==
    DepsDone =>
        /\ Range(initial_funcs) \subseteq all_deps
        /\ \A f \in all_deps : \A c \in Range(Get(call_graph, f)) : c \in all_deps

\* the closure of a graph with a cycle grew beyond its seeds
C4_Witness ==
    /\ DepsDone /\ initial_funcs # <<>>
    /\ Range(initial_funcs) # all_deps
    /\ \E f \in all_deps : \E h \in all_deps \ Range(initial_funcs) :
          Edge(call_graph, f, h) /\ Edge(call_graph, h, f)

\* C9: no function is appended to the queue more than once, the number of
\* dequeues never exceeds the number of functions of the seeds and the graph,
\* and the loop ends with an empty queue.
C9_EnqueuedOnceAndTerminates ==
    /\ [](\A f \in Funcs : enqueued[f] <= 1)
    /\ [](dequeues <= Cardinality(Range(initial_funcs) \cup GraphFuncs(call_graph)))
    /\ <>(DepsDone /\ queue = <<>>)

\* a function called twice by one dequeued function was enqueued once
C9_Witness ==
    /\ DepsDone /\ queue = <<>>
    /\ \E f \in all_deps : \E h \in all_deps \ Range(initial_funcs) :
          \E i, j \in DOMAIN Get(call_graph, f) :
              i # j /\ call_graph[f][i] = h /\ call_graph[f][j] = h

----------------------------------------------------------------------------
(* Properties of compute_instrumentation_set *)

\* C5: once a target is processed, the accumulated set contains every
\* function of its call path from the entry and the whole closure of its
\* preceding dependencies, and no step removes a function from the set.
C5_ContainsPathAndDeps ==
    /\ [](\A k \in 1..(ti - 1) :
            /\ Range(GetCallPath(call_graph, entry_func, target_funcs[k]))
                  \subseteq instrumentation_funcs
            /\ GetRecursiveDependencies(call_graph,
                  GetPrecedingDependentFuncs(call_sites, target_funcs[k]))
                  \subseteq instrumentation_funcs)
    /\ [][instrumentation_funcs \subseteq instrumentation_funcs']_vars

\* two targets were processed: the first has a path of two or more functions,
\* the second has preceding dependencies
C5_Witness ==
    /\ InstrDone /\ Len(target_funcs) = 2
    /\ Len(GetCallPath(call_graph, entry_func, target_funcs[1])) >= 2
    /\ GetPrecedingDependentFuncs(call_sites, target_funcs[2]) # {}

\* t is not reachable from the entry and no caller calls a function before t
Barren(t) ==
    /\ ~Reachable(call_graph, entry_func, t)
    /\ \A caller \in DOMAIN call_sites :
          \A i, j \in DOMAIN call_sites[caller] :
              ~(/\ call_sites[caller][j][1] = t
                /\ call_sites[caller][i][1] # t
                /\ call_sites[caller][i][2] < call_sites[caller][j][2])

\* C6: a target with no path from the entry and no preceding dependencies
\* contributes nothing: the returned set is the union of what the other
\* targets of the list contribute, and nothing else.
C6_BarrenTargetContributesNothing ==
    InstrDone =>
        \A t \in Range(target_funcs) :
            Barren(t) =>
                instrumentation_funcs =
                    UNION {Combined(call_graph, call_sites, bb_calls,
                                    entry_func, target_funcs[k]) :
                              k \in {j \in DOMAIN target_funcs :
                                        target_funcs[j] # t}}

\* a barren target that the graph names was processed before a target that
\* contributes, and it is not in the returned set
C6_Witness ==
    /\ InstrDone /\ Len(target_funcs) = 2
    /\ Barren(target_funcs[1])
    /\ target_funcs[1] \in GraphFuncs(call_graph)
    /\ target_funcs[1] \notin instrumentation_funcs
    /\ instrumentation_funcs # {}

----------------------------------------------------------------------------
(* Properties of read_entry_func *)

\* the lines of a file, without their newlines
RECURSIVE SplitLines(_)
SplitLines(f) ==
    IF f = <<>> THEN <<>>
    ELSE IF \E k \in DOMAIN f : f[k] = "\n"
         THEN LET k == CHOOSE k \in DOMAIN f :
                          f[k] = "\n" /\ \A j \in 1..(k - 1) : f[j] # "\n"
              IN <<SubSeq(f, 1, k - 1)>> \o SplitLines(SubSeq(f, k + 1, Len(f)))
         ELSE <<f>>

Blank(l) == \A i \in DOMAIN l : l[i] \in Whitespace

\* r is l without its leading and trailing whitespace
IsTrimOf(r, l) ==
    /\ r = <<>> \/ (r[1] \notin Whitespace /\ r[Len(r)] \notin Whitespace)
    /\ \E a, b \in 0..Len(l) :
          /\ a + Len(r) + b = Len(l)
          /\ r = SubSeq(l, a + 1, a + Len(r))
          /\ \A i \in 1..a : l[i] \in Whitespace
          /\ \A i \in (Len(l) - b + 1)..Len(l) : l[i] \in Whitespace

\* C8 (as claimed): the result is the first line that is not blank, trimmed,
\* also when blank lines lead the file.
C8_FirstNonBlankLine ==
    EntryDone =>
        \A k \in DOMAIN SplitLines(entry_file) :
            (/\ ~Blank(SplitLines(entry_file)[k])
             /\ \A j \in 1..(k - 1) : Blank(SplitLines(entry_file)[j]))
                => IsTrimOf(entry_result, SplitLines(entry_file)[k])

\* C8 (amended): the result is the first line of the file, trimmed, which is
\* the empty string when that line is blank or the file is empty; the lines
\* after the first are ignored.
C8_FirstLineTrimmed ==
    EntryDone =>
        IF entry_file = <<>>
        THEN entry_result = <<>>
        ELSE IsTrimOf(entry_result, SplitLines(entry_file)[1])

\* a first line with whitespace around its name, followed by another name
C8_Witness ==
    /\ EntryDone /\ entry_result # <<>>
    /\ Len(SplitLines(entry_file)) >= 2
    /\ Head(entry_file) \in Whitespace
    /\ ~Blank(SplitLines(entry_file)[2])

====
